---- MODULE Spec2Model ----
(***************************************************************************)
(* A model of the fAPI client (src/src/client.ts): the construction of a   *)
(* Client, its event listeners, and the request dispatcher Client.request  *)
(* with its rate-limit bookkeeping, error classification and decoding.     *)
(*                                                                         *)
(* JavaScript runs every stretch of code between two awaits to completion, *)
(* so each action below is one such stretch of Client.request; the awaits  *)
(* (the transport call, res.body(), res.json()) are the points where the   *)
(* calls of other callers interleave.                                      *)
(***************************************************************************)
EXTENDS Integers, Sequences, FiniteSets, TLC

\* ---------------------------------------------------------------- bounds
\* Calls of Client.request that one behaviour makes (each may be in flight
\* while the others are).
MaxCalls == 3
\* Responses the transport delivers in one behaviour.
MaxLog == 3
\* Listeners registered with Client.on in one behaviour.
MaxListeners == 2
\* Clients constructed in one behaviour.
MaxClients == 3
\* Calls of Client.imageScript that one behaviour makes.
MaxImageScripts == 2

Calls == 1 .. MaxCalls

\* ------------------------------------------------------- names of the code
GET == "GET"
POST == "POST"

RETURN_JSON == "json"
RETURN_BODY == "body"

IMAGESCRIPT_CPUTIME == "x-imagescript-cputime"
IMAGESCRIPT_WALLTIME == "x-imagescript-walltime"
IMAGESCRIPT_MEMORY == "x-imagescript-memory"
RATELIMIT_RESET == "x-rate-limit-reset"
RATELIMIT_LIMIT == "x-rate-limit-limit"
RATELIMIT_REMAINING == "x-rate-limit-remaining"
CONTENT_TYPE == "content-type"

CONTENT_PNG == "image/png"
CONTENT_GIF == "image/gif"

IMAGE_PNG == "png"
IMAGE_GIF == "gif"

ratelimitStatusCode == 429
okStatusCode == 200
defaultTimeout == 15000

Events == {"ratelimit", "request", "response"}

\* The order in which Client.request scans the rate-limit headers.
ratelimitHeaders == <<RATELIMIT_LIMIT, RATELIMIT_REMAINING, RATELIMIT_RESET>>

RatelimitKeys == {ratelimitHeaders[i] : i \in 1 .. Len(ratelimitHeaders)}

\* ------------------------------------------------ JavaScript objects
\* An object is a function from the keys it has to their values; a key the
\* object lacks reads as undefined.
NoHeaders == [k \in {} |-> ""]

Has(obj, key) == key \in DOMAIN obj

\* obj[key] = value
Put(obj, key, value) ==
  [k \in DOMAIN obj \cup {key} |-> IF k = key THEN value ELSE obj[k]]

\* if (obj[key]) for a string-valued key: undefined and "" are falsy.
Truthy(obj, key) == Has(obj, key) /\ obj[key] # ""

\* ---------------------------------------------------------------- parseInt
\* The characters of the header values the model draws.
Chars ==
  [s \in {"", "3", "5", "9", "17", "abc", "12px", "-4", " 8", "7", "1.5",
          "20.25"} |->
     CASE s = "" -> <<>>
       [] s = "3" -> <<"3">>
       [] s = "5" -> <<"5">>
       [] s = "9" -> <<"9">>
       [] s = "17" -> <<"1", "7">>
       [] s = "abc" -> <<"a", "b", "c">>
       [] s = "12px" -> <<"1", "2", "p", "x">>
       [] s = "-4" -> <<"-", "4">>
       [] s = " 8" -> <<" ", "8">>
       [] s = "7" -> <<"7">>
       [] s = "1.5" -> <<"1", ".", "5">>
       [] s = "20.25" -> <<"2", "0", ".", "2", "5">>]

Digits == {"0", "1", "2", "3", "4", "5", "6", "7", "8", "9"}

DigitValue(ch) ==
  CASE ch = "0" -> 0 [] ch = "1" -> 1 [] ch = "2" -> 2 [] ch = "3" -> 3
    [] ch = "4" -> 4 [] ch = "5" -> 5 [] ch = "6" -> 6 [] ch = "7" -> 7
    [] ch = "8" -> 8 [] ch = "9" -> 9

RECURSIVE SkipSpaces(_)
SkipSpaces(cs) ==
  IF cs # <<>> /\ Head(cs) = " " THEN SkipSpaces(Tail(cs)) ELSE cs

\* The longest prefix of cs made of decimal digits.
RECURSIVE DigitPrefix(_)
DigitPrefix(cs) ==
  IF cs # <<>> /\ Head(cs) \in Digits
    THEN <<Head(cs)>> \o DigitPrefix(Tail(cs))
    ELSE <<>>

RECURSIVE DecimalValue(_, _)
DecimalValue(ds, acc) ==
  IF ds = <<>> THEN acc ELSE DecimalValue(Tail(ds), 10 * acc + DigitValue(Head(ds)))

NaN == [nan |-> TRUE, value |-> 0]

Number(n) == [nan |-> FALSE, value |-> n]

\* parseInt(cs): leading white space is skipped, a sign is read, and the
\* digits up to the first character that is none are the value; NaN when
\* there is no digit.
ParseIntChars(cs) ==
  LET t == SkipSpaces(cs)
      neg == t # <<>> /\ Head(t) = "-"
      body == IF t # <<>> /\ Head(t) \in {"-", "+"} THEN Tail(t) ELSE t
      ds == DigitPrefix(body)
  IN IF ds = <<>> THEN NaN
     ELSE Number(IF neg THEN 0 - DecimalValue(ds, 0) ELSE DecimalValue(ds, 0))

\* parseInt(obj[key]); parseInt(undefined) is NaN.
ParseInt(obj, key) ==
  IF Has(obj, key) THEN ParseIntChars(Chars[obj[key]]) ELSE NaN

\* -------------------------------------------------------------- parseFloat
\* A number with a fraction: its sign, its whole part and the digits of its
\* fraction without the zeros at their end.
NaNFloat == [nan |-> TRUE, neg |-> FALSE, whole |-> 0, frac |-> <<>>]

RECURSIVE StripZeros(_)
StripZeros(ds) ==
  IF ds # <<>> /\ ds[Len(ds)] = "0" THEN StripZeros(SubSeq(ds, 1, Len(ds) - 1))
  ELSE ds

Float(neg, whole, frac) ==
  [nan |-> FALSE, neg |-> neg, whole |-> DecimalValue(whole, 0),
   frac |-> StripZeros(frac)]

\* parseFloat(cs), for texts without an exponent: leading white space is
\* skipped, a sign is read, then digits, a point and digits; NaN when there
\* is no digit.
ParseFloatChars(cs) ==
  LET t == SkipSpaces(cs)
      neg == t # <<>> /\ Head(t) = "-"
      body == IF t # <<>> /\ Head(t) \in {"-", "+"} THEN Tail(t) ELSE t
      whole == DigitPrefix(body)
      rest == SubSeq(body, Len(whole) + 1, Len(body))
      frac == IF rest # <<>> /\ Head(rest) = "." THEN DigitPrefix(Tail(rest))
              ELSE <<>>
  IN IF whole = <<>> /\ frac = <<>> THEN NaNFloat ELSE Float(neg, whole, frac)

\* parseFloat(obj[key]); parseFloat(undefined) is NaN.
ParseFloat(obj, key) ==
  IF Has(obj, key) THEN ParseFloatChars(Chars[obj[key]]) ELSE NaNFloat

\* --------------------------------------------------------------- variables
VARIABLES
  defaultSettings,  \* the module's defaultSettings object (client.ts:21)
  settingsCopied,   \* whether the rest client copies the settings it is given
  clients,          \* the clients constructed so far, oldest first
  listeners,        \* per event, the listeners registered with Client.on
  ratelimitState,   \* Client.ratelimitState of the client the calls run on
  pc,               \* per call, the await Client.request is suspended at
  opts,             \* per call, the request descriptor (options)
  res,              \* per call, the response the transport returned
  outcome,          \* per call, what the promise of Client.request settled to
  trace,            \* per call, its emits and transport invocations in order
  log,              \* the calls whose responses were received, in that order
  seen,             \* per call, Client.ratelimits as the listeners of the
                    \* call's 'response' or 'ratelimit' event read it
  imageScript       \* per call, the Client.imageScript invocation that made it

vars ==
  <<defaultSettings, settingsCopied, clients, listeners, ratelimitState, pc,
    opts, res, outcome, trace, log, seen, imageScript>>

constructionVars == <<defaultSettings, settingsCopied, clients>>

callVars == <<ratelimitState, pc, opts, res, outcome, trace, log, seen, imageScript>>

\* ------------------------------------------------------------------ values
NoRequest == [k \in {} |-> ""]

NoResponse == [statusCode |-> 0, headers |-> NoHeaders, body |-> ""]

\* A JavaScript value a call can return: undefined, what res.body() or
\* res.json() resolved to, or the response object itself.
Undefined == [type |-> "undefined", data |-> ""]

BodyOf(r) == [type |-> "body", data |-> r.body]

\* The bodies that are JSON texts; res.json() rejects on every other body.
JsonTexts == {"[1]", "{\"a\":1}"}

IsJson(r) == r.body \in JsonTexts

JsonOf(r) == [type |-> "json", data |-> r.body]

ResponseObject(r) == [type |-> "response", data |-> r.body]

Bare(v) == [wrapped |-> FALSE, body |-> v, headers |-> NoHeaders]

\* { body: returnValue, headers: res.headers }
Wrapped(v, headers) == [wrapped |-> TRUE, body |-> v, headers |-> headers]

NoOutcome ==
  [kind |-> "pending", value |-> Bare(Undefined), message |-> "",
   statusCode |-> 0, ratelimitReset |-> 0, request |-> NoRequest]

Returned(v) == [NoOutcome EXCEPT !.kind = "returned", !.value = v]

\* new FapiError(message, statusCode, request)
FapiError(message, statusCode, request) ==
  [NoOutcome EXCEPT !.kind = "FapiError", !.message = message,
                    !.statusCode = statusCode, !.request = request]

\* STATUS_CODES[429]
TooManyRequests == "Too Many Requests"

\* new RatelimitError(ratelimitReset, request)
RatelimitError(ratelimitReset, request) ==
  [FapiError(TooManyRequests, ratelimitStatusCode, request)
     EXCEPT !.kind = "RatelimitError", !.ratelimitReset = ratelimitReset]

\* What a listener that throws makes emit throw.
ListenerError == [NoOutcome EXCEPT !.kind = "ListenerError"]

\* What the transport rejects with (a network error, a timeout).
TransportFailures == {"ECONNRESET", "timeout"}

\* A transport failure that reaches the caller as a Request-Failed error.
TransportErrorWrapped(failure) ==
  [NoOutcome EXCEPT !.kind = "FapiError", !.message = failure]

\* await this.restClient.request(options) throws what the transport rejected
\* with; no try/catch of Client.request surrounds it.
TransportError(failure) ==
  [NoOutcome EXCEPT !.kind = "TransportError", !.message = failure]

\* What a call of Client.imageScript is at: not made, awaiting this.request,
\* or settled with the ReturnTypes.ImageScript or with what this.request threw.
NotCalled ==
  [pc |-> "none", kind |-> "pending", image |-> Undefined, format |-> "",
   cpuTime |-> NaNFloat, wallTime |-> NaNFloat, memoryUsage |-> NaNFloat,
   error |-> NoOutcome]

Awaiting == [NotCalled EXCEPT !.pc = "awaiting"]

\* ------------------------------------------------------------------ events
\* EventEmitter.emit calls the listeners of the event in the order they were
\* registered, in the caller's own stack: what a listener throws, emit throws.
EmitThrows(ls, event) ==
  \E i \in 1 .. Len(ls[event]) : ls[event][i] = "throws"

\* this.emit(event, payload), with the listeners it calls
Emit(ls, event, payload) ==
  [kind |-> "emit", event |-> event, payload |-> payload, heard |-> ls[event]]

\* this.restClient.request(options)
Transport(options) ==
  [kind |-> "transport", event |-> "", payload |-> ("request" :> options),
   heard |-> <<>>]

\* this.restClient.request(options) rejects with failure
Rejected(failure) ==
  [kind |-> "rejected", event |-> "", payload |-> ("error" :> failure),
   heard |-> <<>>]

\* ------------------------------------------------- Client.request, by parts
\* The content-type header of a request that is not a GET.
SetContentType(o) ==
  IF (~Has(o, "method") \/ o.method # GET) /\ Has(o, "headers")
    THEN Put(o, "headers",
             Put(o.headers, CONTENT_TYPE,
                 IF Truthy(o, "contentType") THEN o.contentType
                 ELSE "application/json"))
    ELSE o

\* The transport invoked before 'request' is emitted.
SendTraceTransportFirst(ls, options) ==
  <<Transport(options), Emit(ls, "request", ("request" :> options))>>

\* The transport invoked a second time.
SendTraceTwice(ls, options) ==
  <<Emit(ls, "request", ("request" :> options)), Transport(options),
    Transport(options)>>

\* What the first stretch of a call leaves in the call's trace: the emit of
\* 'request', and the transport invocation unless a listener threw.
SendTrace(ls, options) ==
  IF EmitThrows(ls, "request")
    THEN <<Emit(ls, "request", ("request" :> options))>>
    ELSE <<Emit(ls, "request", ("request" :> options)), Transport(options)>>

\* The loop over ratelimitHeaders, from its i-th header on.
RECURSIVE ScanRatelimits(_, _, _)
ScanRatelimits(state, headers, i) ==
  IF i > Len(ratelimitHeaders) THEN state
  ELSE LET headerKey == ratelimitHeaders[i]
       IN ScanRatelimits(
            IF Truthy(headers, headerKey)
              THEN Put(state, headerKey, headers[headerKey])
              ELSE state,
            headers, i + 1)

\* A loop that stores a header only while its field is still unset.
RECURSIVE ScanRatelimitsOnce(_, _, _)
ScanRatelimitsOnce(state, headers, i) ==
  IF i > Len(ratelimitHeaders) THEN state
  ELSE LET headerKey == ratelimitHeaders[i]
       IN ScanRatelimitsOnce(
            IF Truthy(headers, headerKey) /\ ~Has(state, headerKey)
              THEN Put(state, headerKey, headers[headerKey])
              ELSE state,
            headers, i + 1)

UpdateRatelimitsFirstWins(state, headers) == ScanRatelimitsOnce(state, headers, 1)

\* A loop that replaces the record by the headers of the response.
UpdateRatelimitsReplace(state, headers) ==
  [k \in {h \in RatelimitKeys : Truthy(headers, h)} |-> headers[k]]

\* A loop that leaves out the first of the three headers.
UpdateRatelimitsPartial(state, headers) == ScanRatelimits(state, headers, 2)

UpdateRatelimits(state, headers) == ScanRatelimits(state, headers, 1)

\* The record stored only once the response is known to be a success.
RatelimitsAfterClassification(state, r) ==
  IF r.statusCode = okStatusCode THEN UpdateRatelimits(state, r.headers) ELSE state

\* The loop runs on every response, before its status code is looked at.
RatelimitsAfter(state, r) == UpdateRatelimits(state, r.headers)

\* Listeners that read the rate-limit state as it was before the response.
RatelimitsSeenBefore(state, r) == state

\* get ratelimits (), read by a listener of the 'response' or 'ratelimit'
\* event of response r: both emits come after the loop over the headers.
RatelimitsSeen(state, r) == RatelimitsAfter(state, r)

\* let ratelimitReset = parseInt(...); if (isNaN(ratelimitReset)) ratelimitReset = 0
RatelimitReset(r) ==
  LET parsed == ParseInt(r.headers, RATELIMIT_RESET)
  IN IF parsed.nan THEN 0 ELSE parsed.value

\* Every response announced with 'response'.
ResponseEventAlways(ls, o, r) == Emit(ls, "response", ("response" :> r))

\* The event a received response is announced with.
ResponseEvent(ls, o, r) ==
  IF r.statusCode = ratelimitStatusCode
    THEN Emit(ls, "ratelimit",
              [request |-> o, response |-> r,
               ratelimitReset |-> RatelimitReset(r)])
    ELSE Emit(ls, "response", ("response" :> r))

\* The flag ignored.
WithHeadersIgnored(o, r, returnValue) == Bare(returnValue)

\* if (options.returnHeaders) returnValue = { body: returnValue, headers: res.headers }
WithHeaders(o, r, returnValue) ==
  IF Has(o, "returnHeaders") /\ o.returnHeaders
    THEN Wrapped(returnValue, r.headers)
    ELSE Bare(returnValue)

\* The stretch of a call from the response to its next await or its end:
\* where the call is suspended next, and what it settled to if it ended.
Dispatch(o, r, ls) ==
  IF r.statusCode = ratelimitStatusCode
    THEN [pc |-> "done",
          outcome |-> IF EmitThrows(ls, "ratelimit") THEN ListenerError
                      ELSE RatelimitError(RatelimitReset(r), o)]
  ELSE IF EmitThrows(ls, "response")
    THEN [pc |-> "done", outcome |-> ListenerError]
  ELSE IF ~(r.statusCode = okStatusCode)
    THEN [pc |-> "errorBody", outcome |-> NoOutcome]
  ELSE IF Has(o, "returnType") /\ o.returnType = RETURN_BODY
    THEN [pc |-> "body", outcome |-> NoOutcome]
  ELSE IF Has(o, "returnType") /\ o.returnType = RETURN_JSON
    THEN [pc |-> "json", outcome |-> NoOutcome]
  ELSE [pc |-> "done", outcome |-> Returned(WithHeaders(o, r, ResponseObject(r)))]

\* catch { returnValue = await res.body(); } returnValue = json;
JsonFallback(o, r) ==
  LET json == Undefined
      caught == BodyOf(r)
      returnValue == json
  IN Returned(WithHeaders(o, r, returnValue))

\* ---------------------------------------------------- Client.request, steps
\* Client.request(o) up to its first await: the content type is set,
\* 'request' is emitted and the transport is invoked.
Send(c, o) ==
  /\ pc[c] = "idle"
  /\ LET options == SetContentType(o)
         thrown == EmitThrows(listeners, "request")
     IN /\ opts' = [opts EXCEPT ![c] = options]
        /\ trace' = [trace EXCEPT ![c] = SendTrace(listeners, options)]
        /\ pc' = [pc EXCEPT ![c] = IF thrown THEN "done" ELSE "transport"]
        /\ outcome' = [outcome EXCEPT ![c] = IF thrown THEN ListenerError ELSE @]
  /\ UNCHANGED <<constructionVars, listeners, ratelimitState, res, log, seen>>

\* Client.request(o), called by the user of the client
Request(c, o) == Send(c, o) /\ UNCHANGED imageScript

\* The transport resolves with the response r: the rate-limit headers are
\* stored, the response is classified and announced, and the call ends or
\* goes on to read the body.
Receive(c, r) ==
  /\ pc[c] = "transport"
  /\ Len(log) < MaxLog
  /\ res' = [res EXCEPT ![c] = r]
  /\ ratelimitState' = RatelimitsAfter(ratelimitState, r)
  /\ log' = Append(log, c)
  /\ trace' = [trace EXCEPT ![c] = Append(@, ResponseEvent(listeners, opts[c], r))]
  /\ seen' = [seen EXCEPT ![c] = RatelimitsSeen(ratelimitState, r)]
  /\ LET next == Dispatch(opts[c], r, listeners)
     IN /\ pc' = [pc EXCEPT ![c] = next.pc]
        /\ outcome' = [outcome EXCEPT ![c] = next.outcome]
  /\ UNCHANGED <<constructionVars, listeners, opts, imageScript>>

\* A rejection after which the rate-limit state is reset and 'response' is
\* emitted.
TransportFailsAnnounced(c) ==
  /\ pc[c] = "transport"
  /\ \E failure \in TransportFailures :
       /\ trace' = [trace EXCEPT
                      ![c] = Append(Append(@, Rejected(failure)),
                                    Emit(listeners, "response",
                                         ("response" :> NoResponse)))]
       /\ outcome' = [outcome EXCEPT ![c] = TransportError(failure)]
  /\ ratelimitState' = NoHeaders
  /\ pc' = [pc EXCEPT ![c] = "done"]
  /\ UNCHANGED <<constructionVars, listeners, opts, res, log, seen, imageScript>>

\* The transport rejects: the await throws and the call ends with that error.
TransportFails(c) ==
  /\ pc[c] = "transport"
  /\ \E failure \in TransportFailures :
       /\ trace' = [trace EXCEPT ![c] = Append(@, Rejected(failure))]
       /\ outcome' = [outcome EXCEPT ![c] = TransportError(failure)]
  /\ pc' = [pc EXCEPT ![c] = "done"]
  /\ UNCHANGED <<constructionVars, listeners, ratelimitState, opts, res, log,
                 seen, imageScript>>

\* const body = await res.body(); throw new FapiError(body, res.statusCode, res.request)
ErrorBodyRead(c) ==
  /\ pc[c] = "errorBody"
  /\ pc' = [pc EXCEPT ![c] = "done"]
  /\ outcome' = [outcome EXCEPT
                   ![c] = FapiError(res[c].body, res[c].statusCode, opts[c])]
  /\ UNCHANGED <<constructionVars, listeners, ratelimitState, opts, res, trace, log,
                 seen, imageScript>>

\* case ReturnMethods.BODY: returnValue = await res.body()
BodyRead(c) ==
  /\ pc[c] = "body"
  /\ pc' = [pc EXCEPT ![c] = "done"]
  /\ outcome' = [outcome EXCEPT
                   ![c] = Returned(WithHeaders(opts[c], res[c], BodyOf(res[c])))]
  /\ UNCHANGED <<constructionVars, listeners, ratelimitState, opts, res, trace, log,
                 seen, imageScript>>

\* case ReturnMethods.JSON: json = await res.json() resolves
JsonParsed(c) ==
  /\ pc[c] = "json"
  /\ IsJson(res[c])
  /\ pc' = [pc EXCEPT ![c] = "done"]
  /\ outcome' = [outcome EXCEPT
                   ![c] = Returned(WithHeaders(opts[c], res[c], JsonOf(res[c])))]
  /\ UNCHANGED <<constructionVars, listeners, ratelimitState, opts, res, trace, log,
                 seen, imageScript>>

\* res.json() rejects: the catch block starts res.body() and awaits it
JsonRejected(c) ==
  /\ pc[c] = "json"
  /\ ~IsJson(res[c])
  /\ pc' = [pc EXCEPT ![c] = "jsonCatch"]
  /\ UNCHANGED <<constructionVars, listeners, ratelimitState, opts, res, outcome,
                 trace, log, seen, imageScript>>

\* the body awaited in the catch block arrives; the call returns
JsonCatchBodyRead(c) ==
  /\ pc[c] = "jsonCatch"
  /\ pc' = [pc EXCEPT ![c] = "done"]
  /\ outcome' = [outcome EXCEPT ![c] = JsonFallback(opts[c], res[c])]
  /\ UNCHANGED <<constructionVars, listeners, ratelimitState, opts, res, trace, log,
                 seen, imageScript>>

\* --------------------------------------------------------- Client.imageScript
\* The descriptor Client.imageScript calls this.request with (the route, which
\* Client.request hands to the transport as it is, is left out as in the other
\* descriptors).
ImageScriptRequest(script) ==
  [method |-> POST, body |-> [args |-> [text |-> script]],
   returnHeaders |-> TRUE, returnType |-> RETURN_BODY]

\* A switch whose default is the GIF.
ImageTypeDefaultGif(headers) ==
  IF Has(headers, CONTENT_TYPE) /\ headers[CONTENT_TYPE] = CONTENT_PNG
    THEN IMAGE_PNG
    ELSE IMAGE_GIF

\* switch (contentType) { case PNG: ...; case GIF: ...; default: PNG }
ImageType(headers) ==
  IF Has(headers, CONTENT_TYPE) /\ headers[CONTENT_TYPE] = CONTENT_PNG
    THEN IMAGE_PNG
  ELSE IF Has(headers, CONTENT_TYPE) /\ headers[CONTENT_TYPE] = CONTENT_GIF
    THEN IMAGE_GIF
  ELSE IMAGE_PNG

\* What Client.imageScript settles to once this.request settled: with the
\* image, its format and its times read from the pair { body, headers } that
\* this.request returned (res in the code).
ImageScriptResult(settled) ==
  IF settled.kind = "returned"
    THEN LET pair == settled.value
         IN [NotCalled EXCEPT
               !.pc = "done", !.kind = "returned",
               !.image = pair.body,
               !.format = ImageType(pair.headers),
               !.wallTime = ParseFloat(pair.headers, IMAGESCRIPT_WALLTIME),
               !.cpuTime = ParseFloat(pair.headers, IMAGESCRIPT_CPUTIME),
               !.memoryUsage = ParseFloat(pair.headers, IMAGESCRIPT_MEMORY)]
    ELSE [NotCalled EXCEPT !.pc = "done", !.kind = "thrown", !.error = settled]

\* client.imageScript(script) up to its await: this.request is called and
\* runs up to its own first await.
ImageScript(c, script) ==
  /\ imageScript[c] = NotCalled
  /\ Send(c, ImageScriptRequest(script))
  /\ imageScript' = [imageScript EXCEPT ![c] = Awaiting]

\* The awaited this.request has settled: the result is built from the pair it
\* returned, or what it threw is thrown on.
ImageScriptSettles(c) ==
  /\ imageScript[c] = Awaiting
  /\ pc[c] = "done"
  /\ imageScript' = [imageScript EXCEPT ![c] = ImageScriptResult(outcome[c])]
  /\ UNCHANGED <<constructionVars, listeners, ratelimitState, pc, opts, res,
                 outcome, trace, log, seen>>

\* ---------------------------------------------------------------- Client.on
Registered == Len(listeners["ratelimit"]) + Len(listeners["request"])
                + Len(listeners["response"])

\* client.on(event, listener), with a listener that returns or one that throws
On(event, listener) ==
  /\ Registered < MaxListeners
  /\ listeners' = [listeners EXCEPT ![event] = Append(@, listener)]
  /\ UNCHANGED <<constructionVars, callVars>>

\* -------------------------------------------------------------- construction
\* Strings whose characters matter (the auth option) are sequences of
\* characters.
Bearer == <<"B", "e", "a", "r", "e", "r">>

\* s.startsWith(prefix)
StartsWith(s, prefix) ==
  Len(s) >= Len(prefix) /\ SubSeq(s, 1, Len(prefix)) = prefix

\* The Authorization header of a client constructed with these options.
Authorization(options) ==
  IF Has(options, "auth") /\ options.auth # <<>> /\ ~StartsWith(options.auth, Bearer)
    THEN Bearer \o <<" ">> \o options.auth
  ELSE IF Has(options, "auth") /\ options.auth # <<>> /\ StartsWith(options.auth, Bearer)
    THEN options.auth
  ELSE <<>>

\* Api.Base, the service's canonical endpoint
ApiBase == "Api.Base"

\* options.baseUrl || Api.Base
BaseUrl(options) ==
  IF Truthy(options, "baseUrl") THEN options.baseUrl ELSE ApiBase

\* const settings = defaultSettings; if (options.timeout) settings.timeout = options.timeout
\* settings is the module's one defaultSettings object, not a copy of it.
ConstructorSettings(defaults, options) ==
  IF Has(options, "timeout") /\ options.timeout # 0
    THEN [defaults EXCEPT !.timeout = options.timeout]
    ELSE defaults

\* new Client(options)
Construct(options) ==
  /\ Len(clients) < MaxClients
  /\ LET settings == ConstructorSettings(defaultSettings, options)
     IN /\ defaultSettings' = settings
        /\ clients' = Append(clients,
                             [options |-> options,
                              auth |-> Authorization(options),
                              baseUrl |-> BaseUrl(options),
                              settings |-> settings])
  /\ UNCHANGED <<settingsCopied, listeners, callVars>>

\* get timeout (): restClient.settings is the rest client's own copy of the
\* settings object it was constructed with, or that object itself.
Timeout(i) ==
  IF settingsCopied THEN clients[i].settings.timeout ELSE defaultSettings.timeout

\* set timeout (value)
SetTimeout(i, value) ==
  /\ i \in 1 .. Len(clients)
  /\ IF settingsCopied
       THEN /\ clients' = [clients EXCEPT ![i].settings.timeout = value]
            /\ UNCHANGED defaultSettings
       ELSE /\ defaultSettings' = [defaultSettings EXCEPT !.timeout = value]
            /\ UNCHANGED clients
  /\ UNCHANGED <<settingsCopied, listeners, callVars>>

\* ------------------------------------------------------------------ inputs
Key == <<"k", "1">>

ConstructorOptions ==
  {NoRequest,
   [auth |-> Key],
   [auth |-> Bearer \o <<" ">> \o Key],
   [auth |-> Bearer \o Key],
   [auth |-> <<>>],
   [timeout |-> 5000],
   [timeout |-> 0],
   [auth |-> Key, baseUrl |-> "http://localhost", timeout |-> 30000],
   [baseUrl |-> ""]}

TimeoutValues == {1000}

\* Rate-limit headers of a response.
NoRatelimits == NoHeaders

AllRatelimits ==
  (RATELIMIT_LIMIT :> "5") @@ (RATELIMIT_REMAINING :> "3") @@ (RATELIMIT_RESET :> "17")

OtherRatelimits ==
  (RATELIMIT_LIMIT :> "9") @@ (RATELIMIT_REMAINING :> "5") @@ (RATELIMIT_RESET :> "3")

OnlyRemaining == (RATELIMIT_REMAINING :> "9")

EmptyRemaining ==
  (RATELIMIT_LIMIT :> "9") @@ (RATELIMIT_REMAINING :> "") @@ (RATELIMIT_RESET :> "3")

Response(statusCode, headers, body) ==
  [statusCode |-> statusCode, headers |-> headers, body |-> body]

\* The responses of the calls that run concurrently.
ConcurrentResponses ==
  {Response(200, AllRatelimits, "[1]"),
   Response(200, OnlyRemaining, "[1]"),
   Response(200, NoRatelimits, "[1]"),
   Response(429, EmptyRemaining, ""),
   Response(500, OtherRatelimits, "internal error")}

\* The responses of a call that runs alone.
Responses ==
  {Response(200, h, b) : h \in {NoRatelimits, AllRatelimits},
                         b \in {"[1]", "{\"a\":1}", "oops", "PNG", ""}}
    \cup {Response(429, NoRatelimits, ""), Response(200, EmptyRemaining, "[1]")}
    \cup {Response(429, (RATELIMIT_RESET :> v), "slow down") : v \in DOMAIN Chars}
    \cup {Response(s, h, "internal error") : s \in {500, 404, 201},
                                             h \in {NoRatelimits, AllRatelimits}}

Optional(present, key, value) == IF present THEN key :> value ELSE NoRequest

\* The descriptors of the calls that run concurrently: what fetchImage sends.
ConcurrentDescriptors ==
  {[method |-> POST, body |-> "images", returnType |-> RETURN_BODY]}

\* The descriptors of a call that runs alone.
Descriptors ==
  {("method" :> m) @@ ("returnType" :> RETURN_BODY)
     @@ Optional(h, "headers", NoHeaders) @@ Optional(b, "body", "images")
     @@ Optional(ct # "", "contentType", ct) :
     m \in {GET, POST}, h \in BOOLEAN, b \in BOOLEAN, ct \in {"", "text/plain"}}
    \cup
  {("method" :> POST) @@ ("body" :> "args")
     @@ Optional(rt # "", "returnType", rt) @@ Optional(rh, "returnHeaders", TRUE) :
     rt \in {"", RETURN_BODY, RETURN_JSON}, rh \in BOOLEAN}

\* The responses to the calls Client.imageScript makes.
ImageScriptTimes ==
  (IMAGESCRIPT_CPUTIME :> "1.5") @@ (IMAGESCRIPT_WALLTIME :> "20.25")
    @@ (IMAGESCRIPT_MEMORY :> "7")

ImageScriptResponses ==
  {Response(200, Optional(ct # "none", CONTENT_TYPE, ct) @@ times, "image") :
     ct \in {"none", CONTENT_PNG, CONTENT_GIF, "text/plain"},
     times \in {NoHeaders, ImageScriptTimes, (IMAGESCRIPT_WALLTIME :> "abc")}}
    \cup {Response(500, (CONTENT_TYPE :> CONTENT_GIF), "internal error")}

Scripts == {"load"}

ListenerKinds == {"returns", "throws"}

\* ----------------------------------------------------------- specifications
Init ==
  /\ defaultSettings = [timeout |-> defaultTimeout]
  /\ settingsCopied \in BOOLEAN
  /\ clients = <<>>
  /\ listeners = [e \in Events |-> <<>>]
  /\ ratelimitState = NoHeaders
  /\ pc = [c \in Calls |-> "idle"]
  /\ opts = [c \in Calls |-> NoRequest]
  /\ res = [c \in Calls |-> NoResponse]
  /\ outcome = [c \in Calls |-> NoOutcome]
  /\ trace = [c \in Calls |-> <<>>]
  /\ log = <<>>
  /\ seen = [c \in Calls |-> NoHeaders]
  /\ imageScript = [c \in Calls |-> NotCalled]

\* Calls are numbered in the order they are made.
InOrder(c) == IF c = 1 THEN TRUE ELSE pc[c - 1] # "idle"

\* Callers that do not wait for one another: up to MaxCalls calls in flight.
Next ==
  \E c \in Calls :
    \/ \E o \in ConcurrentDescriptors : InOrder(c) /\ Request(c, o)
    \/ \E r \in ConcurrentResponses : Receive(c, r)
    \/ TransportFails(c)
    \/ ErrorBodyRead(c)
    \/ BodyRead(c)

Spec == Init /\ [][Next]_vars

\* One call, of any descriptor and with any response.
OneCall ==
  \/ \E o \in Descriptors : Request(1, o)
  \/ \E r \in Responses : Receive(1, r)
  \/ TransportFails(1)
  \/ ErrorBodyRead(1)
  \/ BodyRead(1)
  \/ JsonParsed(1)
  \/ JsonRejected(1)
  \/ JsonCatchBodyRead(1)

NextSequential == OneCall

SpecSequential == Init /\ [][NextSequential]_vars

\* One call, with listeners registered before or while it runs.
NextObservers ==
  \/ OneCall
  \/ \E e \in Events, l \in ListenerKinds : On(e, l)

SpecObservers == Init /\ [][NextObservers]_vars

\* Clients being constructed and their timeouts set.
NextConstruct ==
  \/ \E options \in ConstructorOptions : Construct(options)
  \/ \E i \in 1 .. MaxClients, value \in TimeoutValues : SetTimeout(i, value)

SpecConstruct == Init /\ [][NextConstruct]_vars

\* Calls of Client.imageScript that do not wait for one another.
NextImageScript ==
  \E c \in 1 .. MaxImageScripts :
    \/ \E script \in Scripts : InOrder(c) /\ ImageScript(c, script)
    \/ \E r \in ImageScriptResponses : Receive(c, r)
    \/ TransportFails(c)
    \/ ErrorBodyRead(c)
    \/ BodyRead(c)
    \/ ImageScriptSettles(c)

SpecImageScript == Init /\ [][NextImageScript]_vars

\* ------------------------------------------------------------------ claims
Received(c) == \E i \in 1 .. Len(log) : log[i] = c

\* The place of call c's response in the order the responses were received.
ReceivedAt(c) == CHOOSE i \in 1 .. Len(log) : log[i] = c

\* The headers of the i-th response received.
HeadersAt(i) == res[log[i]].headers

TransportInvoked(c) == \E i \in 1 .. Len(trace[c]) : trace[c][i].kind = "transport"

Emitted(c, event) ==
  {i \in 1 .. Len(trace[c]) : trace[c][i].kind = "emit" /\ trace[c][i].event = event}

WithoutObservers == [e \in Events |-> <<>>]

\* The parsed integer value of the reset header, or 0 if the header is
\* missing or is no number.
ParsedReset(r) ==
  IF Has(r.headers, RATELIMIT_RESET) /\ ~ParseInt(r.headers, RATELIMIT_RESET).nan
    THEN ParseInt(r.headers, RATELIMIT_RESET).value
    ELSE 0

\* C1: every call whose response has status 429 fails with the
\* RatelimitError, whose reset value is the parsed integer value of the
\* response's x-rate-limit-reset header, or 0 if that header is missing or
\* non-numeric.
C1_RatelimitedFailsWithReset ==
  \A c \in Calls :
    (pc[c] = "done" /\ Received(c) /\ res[c].statusCode = 429)
      => /\ outcome[c].kind = "RatelimitError"
         /\ outcome[c].ratelimitReset = ParsedReset(res[c])

\* C2: every call whose response has a status other than 200 and 429 fails
\* with the FapiError whose message is the response body and whose statusCode
\* is the status code of the response.
C2_OtherStatusFailsWithBody ==
  \A c \in Calls :
    (pc[c] = "done" /\ Received(c) /\ res[c].statusCode \notin {200, 429})
      => /\ outcome[c].kind = "FapiError"
         /\ outcome[c].message = res[c].body
         /\ outcome[c].statusCode = res[c].statusCode

\* C3: a call that asked for parsed JSON and whose response has status 200
\* and a body that is no JSON returns the raw body of the response.
C3_JsonFallbackReturnsBody ==
  \A c \in Calls :
    (/\ pc[c] = "done" /\ Received(c) /\ res[c].statusCode = 200
     /\ Has(opts[c], "returnType") /\ opts[c].returnType = RETURN_JSON
     /\ ~IsJson(res[c]))
      => /\ outcome[c].kind = "returned"
         /\ outcome[c].value.body = BodyOf(res[c])

\* C4: the listeners registered change neither what a call settles to nor
\* whether the transport is invoked: every call that ended invoked the
\* transport, and settled to what it settles to with no listener registered.
C4_ObserversNeverAlterOutcome ==
  \A c \in Calls :
    pc[c] = "done"
      => /\ TransportInvoked(c)
         /\ outcome[c].kind # "ListenerError"
         /\ (Received(c) /\ Dispatch(opts[c], res[c], WithoutObservers).pc = "done")
              => outcome[c] = Dispatch(opts[c], res[c], WithoutObservers).outcome

\* C5: a client constructed without a timeout option has, once constructed,
\* the timeout 15000, whatever clients were constructed before it.
C5_DefaultTimeoutPerClient ==
  [][(/\ Len(clients') = Len(clients) + 1
      /\ ~Has(clients'[Len(clients')].options, "timeout"))
       => (IF settingsCopied' THEN clients'[Len(clients')].settings.timeout
           ELSE defaultSettings'.timeout) = 15000]_vars

\* Whether headers carry header h: with a non-empty value, or with any value.
Carries(headers, h, nonEmpty) ==
  IF nonEmpty THEN Truthy(headers, h) ELSE Has(headers, h)

\* The responses received so far that carried header h.
Carriers(h, nonEmpty) ==
  {i \in 1 .. Len(log) : Carries(HeadersAt(i), h, nonEmpty)}

Latest(S) == CHOOSE i \in S : \A j \in S : j <= i

\* Field h is the value of header h in the latest response that carried it,
\* and unset if no response carried it.
FieldIsLatest(h, nonEmpty) ==
  IF Carriers(h, nonEmpty) = {}
    THEN ~Has(ratelimitState, h)
    ELSE /\ Has(ratelimitState, h)
         /\ ratelimitState[h] = HeadersAt(Latest(Carriers(h, nonEmpty)))[h]

\* C6, as stated: each rate-limit field is the value of its header in the
\* most recent response that carried the header, and unset if none did.
C6_FieldsFollowHeadersPresent ==
  \A h \in RatelimitKeys : FieldIsLatest(h, FALSE)

\* C6, amended: each rate-limit field is the value of its header in the most
\* recent response that carried the header with a non-empty value, and unset
\* if none did; a response that lacks the header or carries it empty leaves
\* the field as it was.
C6_FieldsFollowNonEmptyHeaders ==
  \A h \in RatelimitKeys : FieldIsLatest(h, TRUE)

\* C6: three calls one after the other, of which only the third response
\* carries the remaining header: the field holds the third response's value.
C6_OnlyThirdCarriesRemaining ==
  /\ Len(log) = 3
  /\ \A c \in Calls : pc[c] = "done"
  /\ ~Has(HeadersAt(1), RATELIMIT_REMAINING)
  /\ ~Has(HeadersAt(2), RATELIMIT_REMAINING)
  /\ Truthy(HeadersAt(3), RATELIMIT_REMAINING)
  /\ ratelimitState[RATELIMIT_REMAINING] = HeadersAt(3)[RATELIMIT_REMAINING]

Settles(c) == pc[c] # "done" /\ pc'[c] = "done"

TypedErrors == {"RatelimitError", "FapiError"}

\* C7, as stated: when a call fails with the RatelimitError or the FapiError,
\* the rate-limit state holds the rate-limit headers of the failing response.
C7_FailureSeesOwnHeaders ==
  [][\A c \in Calls :
       (Settles(c) /\ outcome'[c].kind \in TypedErrors)
         => \A h \in RatelimitKeys :
              Has(res'[c].headers, h)
                => /\ Has(ratelimitState', h)
                   /\ ratelimitState'[h] = res'[c].headers[h]]_vars

\* C7, amended: every response received, whatever its status code, has its
\* non-empty rate-limit headers stored in the step that receives it, before
\* it is classified; and when a call fails with the RatelimitError or the
\* FapiError, each field of a non-empty rate-limit header of the failing
\* response holds that header's value, or the value of a response received
\* after it.
C7_StoredBeforeClassification ==
  [][\A c \in Calls : \A h \in RatelimitKeys :
       /\ (~Received(c) /\ Received(c)' /\ Truthy(res'[c].headers, h))
            => /\ Has(ratelimitState', h)
               /\ ratelimitState'[h] = res'[c].headers[h]
       /\ (Settles(c) /\ outcome'[c].kind \in TypedErrors
             /\ Truthy(res'[c].headers, h))
            => /\ Has(ratelimitState', h)
               /\ \/ ratelimitState'[h] = res'[c].headers[h]
                  \/ \E i \in 1 .. Len(log') :
                       /\ i > (ReceivedAt(c))'
                       /\ Truthy(res'[log'[i]].headers, h)]_vars

\* C7: a call has failed with the FapiError while the rate-limit state holds
\* the headers of its response.
C7_FailedWithHeadersStored ==
  \E c \in Calls :
    /\ pc[c] = "done" /\ outcome[c].kind = "FapiError"
    /\ \A h \in RatelimitKeys :
         /\ Truthy(res[c].headers, h)
         /\ Has(ratelimitState, h)
         /\ ratelimitState[h] = res[c].headers[h]

\* C8: a call whose transport returned a response emitted exactly one of
\* 'response' and 'ratelimit', once: 'ratelimit', with the descriptor, the
\* response and the parsed reset value, if the status code is 429, and
\* 'response', with the response, otherwise; a call without a response
\* emitted neither.
C8_OneResponseEvent ==
  \A c \in Calls :
    LET announced == Emitted(c, "response") \cup Emitted(c, "ratelimit")
    IN IF ~Received(c) THEN announced = {}
       ELSE /\ Cardinality(announced) = 1
            /\ \A i \in announced :
                 IF res[c].statusCode = 429
                   THEN /\ trace[c][i].event = "ratelimit"
                        /\ trace[c][i].payload =
                             [request |-> opts[c], response |-> res[c],
                              ratelimitReset |-> ParsedReset(res[c])]
                   ELSE /\ trace[c][i].event = "response"
                        /\ trace[c][i].payload = ("response" :> res[c])

\* C8: a call has failed with the FapiError after its 'response' event was
\* emitted to a listener.
C8_FailedResponseAnnounced ==
  \E c \in Calls :
    /\ pc[c] = "done" /\ outcome[c].kind = "FapiError"
    /\ \E i \in Emitted(c, "response") : trace[c][i].heard # <<>>

\* C9: every call emitted 'request' exactly once, with its descriptor, and
\* before it invoked the transport.
C9_RequestEventFirst ==
  \A c \in Calls :
    pc[c] # "idle"
      => /\ Cardinality(Emitted(c, "request")) = 1
         /\ \A i \in Emitted(c, "request") :
              /\ trace[c][i].payload = ("request" :> opts[c])
              /\ \A j \in 1 .. Len(trace[c]) :
                   trace[c][j].kind = "transport" => i < j

\* C9: a call is waiting for the transport, having emitted 'request' to a
\* listener.
C9_RequestAnnouncedThenSent ==
  \E c \in Calls :
    /\ pc[c] = "transport"
    /\ TransportInvoked(c)
    /\ \E i \in Emitted(c, "request") : trace[c][i].heard # <<>>

\* The responses received after the i-th that carried header h.
LaterCarriers(i, h, nonEmpty) == {j \in Carriers(h, nonEmpty) : j > i}

Invocations(c) == {i \in 1 .. Len(trace[c]) : trace[c][i].kind = "transport"}

Failures(c) == {i \in 1 .. Len(trace[c]) : trace[c][i].kind = "rejected"}

\* C11: no call is retried: every call invoked the transport at most once
\* and got at most one response, whatever it settled to, and a call waits for
\* the transport only before its response or failure.
C11_NoRetry ==
  \A c \in Calls :
    /\ Cardinality(Invocations(c)) <= 1
    /\ Cardinality({i \in 1 .. Len(log) : log[i] = c}) <= 1
    /\ pc[c] = "transport" => ~Received(c) /\ Failures(c) = {}

\* C11: a call has failed with the RatelimitError, with a reset value to wait
\* for, having invoked the transport once.
C11_RatelimitedSentOnce ==
  \E c \in Calls :
    /\ pc[c] = "done" /\ outcome[c].kind = "RatelimitError"
    /\ outcome[c].ratelimitReset > 0
    /\ Cardinality(Invocations(c)) = 1

\* C12: every call that declared a return type and whose response has status
\* 200 returns: with the raw body declared, the body as the transport
\* delivered it, and with JSON declared and a body that is JSON, the parsed
\* value.
C12_SuccessReturnsDecoded ==
  \A c \in Calls :
    (/\ pc[c] = "done" /\ Received(c) /\ res[c].statusCode = 200
     /\ Has(opts[c], "returnType"))
      => /\ outcome[c].kind = "returned"
         /\ opts[c].returnType = RETURN_BODY
              => outcome[c].value.body = BodyOf(res[c])
         /\ (opts[c].returnType = RETURN_JSON /\ IsJson(res[c]))
              => outcome[c].value.body = JsonOf(res[c])

\* C13: a call whose transport invocation was rejected ends with the very
\* failure the transport rejected with, which is neither of the typed errors
\* and no returned value; and no other call ends with a transport failure.
C13_TransportFailurePropagated ==
  \A c \in Calls :
    /\ \A i \in Failures(c) :
         /\ pc[c] = "done"
         /\ outcome[c].kind = "TransportError"
         /\ outcome[c].kind \notin TypedErrors \cup {"returned"}
         /\ outcome[c].message = trace[c][i].payload.error
    /\ outcome[c].kind = "TransportError" => Failures(c) # {}

\* C13: the transport timed out under a call whose 'request' event a listener
\* heard, and the call ended with the timeout.
C13_TimeoutPropagated ==
  \E c \in Calls :
    /\ \E i \in Failures(c) : trace[c][i].payload.error = "timeout"
    /\ \E i \in Emitted(c, "request") : trace[c][i].heard # <<>>
    /\ pc[c] = "done" /\ outcome[c].message = "timeout"

\* The bearer scheme prefix of an Authorization header.
BearerScheme == Bearer \o <<" ">>

\* C14: the Authorization header of every client constructed with a
\* non-empty auth token is the token itself if the token starts with the
\* bearer scheme prefix and the prefix followed by the token otherwise, so
\* that it starts with the prefix.
C14_AuthorizationCarriesScheme ==
  \A i \in 1 .. Len(clients) :
    LET options == clients[i].options
    IN (Has(options, "auth") /\ options.auth # <<>>)
         => /\ clients[i].auth = IF StartsWith(options.auth, BearerScheme)
                                   THEN options.auth
                                   ELSE BearerScheme \o options.auth
            /\ StartsWith(clients[i].auth, BearerScheme)

FourOutcomes == {"returned", "RatelimitError", "FapiError", "TransportError"}

\* C15: every call that has ended after its transport invocation completed,
\* with a response or with a failure, has ended with one of the four outcomes:
\* a returned value, the RatelimitError, the FapiError or the transport's
\* failure.
C15_OneOfFourOutcomes ==
  \A c \in Calls :
    (pc[c] = "done" /\ (Received(c) \/ Failures(c) # {}))
      => outcome[c].kind \in FourOutcomes

\* C16: every call whose method is not GET and whose descriptor has a body
\* is sent with the content-type header set to the declared content type, or
\* to application/json if none is declared; a GET is sent without one.
C16_ContentTypeFollowsBody ==
  \A c \in Calls :
    pc[c] # "idle"
      => LET o == opts[c]
             set == Has(o, "headers") /\ Has(o.headers, CONTENT_TYPE)
         IN /\ (o.method # GET /\ Has(o, "body"))
                 => /\ set
                    /\ o.headers[CONTENT_TYPE] =
                         IF Truthy(o, "contentType") THEN o.contentType
                         ELSE "application/json"
            /\ o.method = GET => ~set

\* C17: after a response that carried a rate-limit header with a value, the
\* header's field holds no text but the integer that parsing the value
\* yields.
C17_FieldsAreIntegers ==
  log # <<>>
    => \A h \in RatelimitKeys :
         Truthy(HeadersAt(Len(log)), h)
           => /\ Has(ratelimitState, h)
              /\ ratelimitState[h] \notin STRING
              /\ ~ParseInt(HeadersAt(Len(log)), h).nan
              /\ ratelimitState[h] = ParseInt(HeadersAt(Len(log)), h).value

\* What a call of descriptor o settles to on response r when no listener
\* throws.
Settled(o, r) ==
  LET next == Dispatch(o, r, WithoutObservers)
  IN IF next.pc = "done" THEN next.outcome
     ELSE IF next.pc = "errorBody" THEN FapiError(r.body, r.statusCode, o)
     ELSE IF next.pc = "body" THEN Returned(WithHeaders(o, r, BodyOf(r)))
     ELSE IF IsJson(r) THEN Returned(WithHeaders(o, r, JsonOf(r)))
     ELSE JsonFallback(o, r)

\* The descriptor o without its returnHeaders flag.
WithoutFlag(o) == [k \in DOMAIN o \ {"returnHeaders"} |-> o[k]]

\* C18: what a call returns on a response of status 200 is, if its descriptor
\* has the returnHeaders flag, the pair of the value that the call returns
\* without the flag and of the headers of its response, and without the flag
\* a bare value, no pair.
C18_FlagWrapsTheValue ==
  \A c \in Calls :
    (/\ pc[c] = "done" /\ Received(c) /\ res[c].statusCode = 200
     /\ outcome[c].kind = "returned")
      => LET plain == Settled(WithoutFlag(opts[c]), res[c]).value
         IN /\ ~plain.wrapped
            /\ outcome[c].value =
                 IF Has(opts[c], "returnHeaders") /\ opts[c].returnHeaders
                   THEN Wrapped(plain.body, res[c].headers)
                   ELSE plain

\* C18: a call with the flag has returned the pair of the parsed JSON body
\* and the rate-limit headers of its response.
C18_PairReturned ==
  \E c \in Calls :
    /\ pc[c] = "done" /\ outcome[c].kind = "returned"
    /\ Has(opts[c], "returnHeaders") /\ opts[c].returnHeaders
    /\ res[c].headers = AllRatelimits
    /\ outcome[c].value = Wrapped(JsonOf(res[c]), AllRatelimits)

\* C19: every result Client.imageScript returned has the format GIF if the
\* content-type of the call's response is image/gif and PNG if it is anything
\* else or missing, the body of that response as its image, and the values of
\* that response's x-imagescript-walltime, -cputime and -memory headers as its
\* wallTime, cpuTime and memoryUsage.
C19_ImageScriptResult ==
  \A c \in Calls :
    (imageScript[c].pc = "done" /\ imageScript[c].kind = "returned")
      => /\ Received(c) /\ res[c].statusCode = 200
         /\ imageScript[c].format =
              IF Has(res[c].headers, CONTENT_TYPE)
                   /\ res[c].headers[CONTENT_TYPE] = "image/gif"
                THEN "gif" ELSE "png"
         /\ imageScript[c].image = BodyOf(res[c])
         /\ imageScript[c].wallTime = ParseFloat(res[c].headers, IMAGESCRIPT_WALLTIME)
         /\ imageScript[c].cpuTime = ParseFloat(res[c].headers, IMAGESCRIPT_CPUTIME)
         /\ imageScript[c].memoryUsage = ParseFloat(res[c].headers, IMAGESCRIPT_MEMORY)

\* C19: two calls of Client.imageScript in flight together have returned, the
\* first a GIF with the times 20.25, 1.5 and 7 of its response, the second a
\* PNG for a response without content-type and without times.
C19_GifAndDefaultPng ==
  /\ imageScript[1].kind = "returned" /\ imageScript[2].kind = "returned"
  /\ log = <<2, 1>>
  /\ Has(res[1].headers, CONTENT_TYPE)
  /\ res[1].headers[CONTENT_TYPE] = CONTENT_GIF
  /\ imageScript[1].format = IMAGE_GIF
  /\ imageScript[1].wallTime =
       [nan |-> FALSE, neg |-> FALSE, whole |-> 20, frac |-> <<"2", "5">>]
  /\ imageScript[1].cpuTime =
       [nan |-> FALSE, neg |-> FALSE, whole |-> 1, frac |-> <<"5">>]
  /\ imageScript[1].memoryUsage =
       [nan |-> FALSE, neg |-> FALSE, whole |-> 7, frac |-> <<>>]
  /\ res[2].headers = NoHeaders
  /\ imageScript[2].format = IMAGE_PNG
  /\ imageScript[2].wallTime.nan

\* The event with which the response of call c was announced.
Announced(c) == Emitted(c, "response") \cup Emitted(c, "ratelimit")

\* C20, as stated: what the listeners of the 'response' or 'ratelimit' event
\* of a response read as Client.ratelimits holds the value of every rate-limit
\* header the response carried.
C20_ObserverSeesHeadersPresent ==
  \A c \in Calls :
    Received(c)
      => \A h \in RatelimitKeys :
           Has(res[c].headers, h)
             => Has(seen[c], h) /\ seen[c][h] = res[c].headers[h]

\* C20, amended: what the listeners of the 'response' or 'ratelimit' event of
\* a response read as Client.ratelimits holds the value of every rate-limit
\* header the response carried with a non-empty value; for a header the
\* response lacked or carried empty, they read what the field held before
\* the response.
C20_ObserverSeesNonEmptyHeaders ==
  [][\A c \in Calls :
       (~Received(c) /\ Received(c)')
         => \A h \in RatelimitKeys :
              IF Truthy(res'[c].headers, h)
                THEN Has(seen'[c], h) /\ seen'[c][h] = res'[c].headers[h]
                ELSE /\ Has(seen'[c], h) <=> Has(ratelimitState, h)
                     /\ Has(seen'[c], h) => seen'[c][h] = ratelimitState[h]]_vars

\* C20: a listener heard the 'response' event of a response that carried the
\* three rate-limit headers, and read their values.
C20_ListenerReadOwnHeaders ==
  \E c \in Calls :
    /\ Received(c)
    /\ \E i \in Announced(c) : trace[c][i].heard # <<>>
    /\ res[c].headers = AllRatelimits
    /\ seen[c] = AllRatelimits

\* The events call c emitted.
EventsOf(c) == {trace[c][i].event : i \in Emitted(c, "request") \cup Announced(c)}

\* C21: the step in which the transport of a call fails without a response
\* leaves the three rate-limit fields as they were, and the call, which
\* emitted 'request' before, emits nothing in that step nor after it: neither
\* 'response' nor 'ratelimit'.
C21_FailureLeavesStateAndEvents ==
  [][\A c \in Calls :
       /\ (Failures(c) = {} /\ Failures(c)' # {})
            => /\ ratelimitState' = ratelimitState
               /\ ~Received(c)'
               /\ EventsOf(c)' = {"request"}
               /\ Cardinality(Emitted(c, "request")') = 1
       /\ Failures(c) # {}
            => /\ trace'[c] = trace[c]
               /\ EventsOf(c) = {"request"}]_vars

\* C21: the transport of a call failed while the rate-limit fields held the
\* headers of another call's response, which they still hold, and the failed
\* call emitted 'request' only.
C21_FailedBesideStoredHeaders ==
  \E c \in Calls :
    /\ Failures(c) # {} /\ pc[c] = "done"
    /\ EventsOf(c) = {"request"}
    /\ log # <<>>
    /\ \A h \in RatelimitKeys :
         /\ Truthy(HeadersAt(Len(log)), h)
         /\ Has(ratelimitState, h)
         /\ ratelimitState[h] = HeadersAt(Len(log))[h]

\* The three fields are all unset, or are the three headers of one of the
\* responses received.
TripleOfOneResponse ==
  \/ \A h \in RatelimitKeys : ~Has(ratelimitState, h)
  \/ \E i \in 1 .. Len(log) :
       \A h \in RatelimitKeys :
         /\ Has(HeadersAt(i), h)
         /\ Has(ratelimitState, h)
         /\ ratelimitState[h] = HeadersAt(i)[h]

\* C22, as stated: under every interleaving of the calls in flight, if every
\* response received carried the three rate-limit headers, the three fields
\* are all unset or are the three headers of one response, no mixture of two.
C22_TripleOfOneResponsePresent ==
  (\A i \in 1 .. Len(log) : \A h \in RatelimitKeys : Has(HeadersAt(i), h))
    => TripleOfOneResponse

\* C22, amended: under every interleaving of the calls in flight, if every
\* response received carried the three rate-limit headers with non-empty
\* values, the three fields are all unset, before the first response, or are
\* the three headers of one response, the one received last; no mixture of two.
C22_TripleOfOneResponseNonEmpty ==
  (\A i \in 1 .. Len(log) : \A h \in RatelimitKeys : Truthy(HeadersAt(i), h))
    => /\ TripleOfOneResponse
       /\ IF log = <<>> THEN ratelimitState = NoHeaders
          ELSE \A h \in RatelimitKeys :
                 ratelimitState[h] = HeadersAt(Len(log))[h]

\* C22: of three calls in flight together, the third still waits for the
\* transport and the first still reads its body, while the responses of the
\* first and the second, with different values in all three headers, have
\* been received: the fields are the three headers of the second.
C22_TripleWhileInFlight ==
  /\ log = <<1, 2>>
  /\ pc[1] = "body" /\ pc[3] = "transport"
  /\ \A h \in RatelimitKeys :
       /\ Truthy(res[1].headers, h) /\ Truthy(res[2].headers, h)
       /\ res[1].headers[h] # res[2].headers[h]
       /\ ratelimitState[h] = res[2].headers[h]

====
